---- MODULE Spec2Model ----
(***************************************************************************)
(* Model of the Tabble restaurant backend (FastAPI + SQLAlchemy routers).  *)
(* The relational tables are sets of records; every HTTP handler is one    *)
(* action that performs all of the handler's queries and writes and then   *)
(* records the response it returned in resp.                               *)
(*                                                                         *)
(* Conventions                                                             *)
(*   - NoId stands for Python None for integer ids (the handlers test ids  *)
(*     with "if not person_id", so None and 0 take the same branch).       *)
(*   - Null stands for SQL NULL in the nullable amount columns.            *)
(*   - Money is kept in hundredths of the currency unit, so that the       *)
(*     percentage discount subtotal * (pct / 100) is exact.                *)
(*   - Integer primary keys are SQLite rowids: a new row gets max(id) + 1. *)
(*   - Query.first() without ORDER BY returns the matching row with the    *)
(*     smallest rowid (SQLite table scan order).                           *)
(***************************************************************************)
EXTENDS Integers, FiniteSets, Sequences, TLC

\* ---------------------------------------------------------------- bounds
MaxOrders == 2
MaxItems == 2
MaxTime == 7
NumThreads == 2
MaxOtps == 2
MaxDishes == 5
MaxPersons == 2
VisitWindow == 1
SendWindow == 1
MaxOffers == 5

\* ------------------------------------------------------ program constants
OTP_EXPIRY_MINUTES == 5

\* ------------------------------------------------------------- sentinels
NoId == 0
NoHotel == 0
Null == 0 - 1
NoName == "None"
NoPhone == "None"

HotelIds == {1, 2}
SessionIds == {1, 2, 3}
Usernames == {"alice", "bob"}
Passwords == {"pw", "bad"}
OtpCodes == {"12345", "54321"}
Phones == {"900", "901"}
TableNumbers == {1}
DishIds == {1, 2}
Quantities == {1, 2}

VARIABLES sessions, persons, dishes, orders, items, tables, loyalty_tiers,
          selection_offers, otp_requests, now, inflight, resp

vars == <<sessions, persons, dishes, orders, items, tables, loyalty_tiers,
          selection_offers, otp_requests, now, inflight, resp>>

\* ------------------------------------------------------------- helpers
Max(a, b) == IF a >= b THEN a ELSE b

MaxOf(S) == CHOOSE x \in S : \A y \in S : y <= x

MinOf(S) == CHOOSE x \in S : \A y \in S : x <= y

Ids(rows) == {r.id : r \in rows}

\* A new row's primary key: SQLite rowid, max(existing) + 1.
NextId(rows) == IF rows = {} THEN 1 ELSE MaxOf(Ids(rows)) + 1

\* Query.first(): the matching row with the smallest rowid, or no row.
HasRow(rows) == rows # {}

First(rows) == CHOOSE r \in rows : \A q \in rows : r.id <= q.id

RowById(rows, id) == CHOOSE r \in rows : r.id = id

\* The hotel bound to a session, db_manager.get_current_hotel_id.
get_current_hotel_id(s) == sessions[s]

\* What the client sees of a request: the HTTP status code, the hotels
\* owning the rows that the response body returns or aggregates, the detail
\* message of an error raised by the OTP service, and, for a dish listing,
\* the ids of the dishes and the category names in the body.
Failure(code, detail) ==
    [code |-> code, owners |-> {}, detail |-> detail, dishes |-> {},
     categories |-> {}]

Response(code, owners) ==
    [code |-> code, owners |-> owners, detail |-> "", dishes |-> {},
     categories |-> {}]

NoResponse == Response(0, {})

\* get_hotel_id_from_request raises 400 when the session has no hotel.
HasHotel(s) == get_current_hotel_id(s) # NoHotel

\* ------------------------------------------------------------ row types
\* database.py Person: a customer of one hotel.
Person(id, hotel_id, username, password, phone_number, visit_count, last_visit) ==
    [id |-> id, hotel_id |-> hotel_id, username |-> username,
     password |-> password, phone_number |-> phone_number,
     visit_count |-> visit_count, last_visit |-> last_visit]

\* database.py Order: created pending, amounts NULL / 0 until payment.
Order(id, hotel_id, table_number, person_id) ==
    [id |-> id, hotel_id |-> hotel_id, table_number |-> table_number,
     person_id |-> person_id, status |-> "pending",
     total_amount |-> Null, subtotal_amount |-> Null,
     loyalty_discount_amount |-> 0, selection_offer_discount_amount |-> 0,
     loyalty_discount_percentage |-> 0]

\* database.py OrderItem: snapshot of the dish price at order time.
OrderItem(id, hotel_id, order_id, dish_id, quantity, price) ==
    [id |-> id, hotel_id |-> hotel_id, order_id |-> order_id,
     dish_id |-> dish_id, quantity |-> quantity, price |-> price]

\* database.py Table.
Table(id, hotel_id, table_number, is_occupied, current_order_id) ==
    [id |-> id, hotel_id |-> hotel_id, table_number |-> table_number,
     is_occupied |-> is_occupied, current_order_id |-> current_order_id]

\* database.py Dish (category is the decoded JSON list of category names).
Dish(id, hotel_id, category, price, is_offer, is_special, visibility) ==
    [id |-> id, hotel_id |-> hotel_id, category |-> category, price |-> price,
     is_offer |-> is_offer, is_special |-> is_special,
     visibility |-> visibility]

\* database.py LoyaltyProgram.
LoyaltyProgram(id, hotel_id, visit_count, discount_percentage, is_active) ==
    [id |-> id, hotel_id |-> hotel_id, visit_count |-> visit_count,
     discount_percentage |-> discount_percentage, is_active |-> is_active]

\* database.py SelectionOffer.
SelectionOffer(id, hotel_id, min_amount, discount_amount, is_active) ==
    [id |-> id, hotel_id |-> hotel_id, min_amount |-> min_amount,
     discount_amount |-> discount_amount, is_active |-> is_active]

Update_removing(rows, r) == {q \in rows : q.id # r.id}

\* Replace the row with r's primary key by r.
Update(rows, r) == {q \in rows : q.id # r.id} \cup {r}

\* A handler that returns an error leaves the database untouched.
DbVars == <<persons, dishes, orders, items, tables, loyalty_tiers,
            selection_offers, otp_requests>>

Reject(code) ==
    /\ resp' = Response(code, {})
    /\ UNCHANGED <<sessions, DbVars, now, inflight>>

\* ------------------------------------------------- customer.py create_order
\* The request body's item list: OrderCreate.items.
OrderItemLists ==
    {<<[dish_id |-> 1, quantity |-> 2], [dish_id |-> 2, quantity |-> 1]>>}
\* customer.py 261-279: one OrderItem per requested item whose dish exists in
\* this hotel, priced with the dish's current price.
RECURSIVE NewItems(_, _, _, _)
NewItems(req, hotel_id, order_id, existing) ==
    IF req = << >> THEN existing
    ELSE LET item == Head(req)
             dish == {d \in dishes : d.hotel_id = hotel_id /\ d.id = item.dish_id}
         IN IF ~HasRow(dish)
            THEN NewItems(Tail(req), hotel_id, order_id, existing)
            ELSE NewItems(Tail(req), hotel_id, order_id,
                          existing \cup {OrderItem(NextId(existing), hotel_id, order_id,
                                                   item.dish_id, item.quantity,
                                                   First(dish).price)})

\* customer.py 199-235: the person the order is linked to and the visit
\* count update.  person_id falsy: look the username up (None matches a NULL
\* username) and increment or create with visit_count 1; person_id given:
\* increment the person of this hotel with that id, if there is one.
VisitIncrement == 1

PersonsByName(hotel_id, username) ==
    {p \in persons : p.hotel_id = hotel_id /\ p.username = username}

PersonsById(hotel_id, person_id) ==
    {p \in persons : p.hotel_id = hotel_id /\ p.id = person_id}

Visited(p) == [p EXCEPT !.visit_count = @ + VisitIncrement, !.last_visit = now]

OrderPersons(hotel_id, person_id, username, password) ==
    IF person_id = NoId
    THEN IF HasRow(PersonsByName(hotel_id, username))
         THEN Update(persons, Visited(First(PersonsByName(hotel_id, username))))
         ELSE persons \cup {Person(NextId(persons), hotel_id, username, password,
                                   NoPhone, 1, now)}
    ELSE IF HasRow(PersonsById(hotel_id, person_id))
         THEN Update(persons, Visited(First(PersonsById(hotel_id, person_id))))
         ELSE persons

OrderPersonId(hotel_id, person_id, username) ==
    IF person_id = NoId
    THEN IF HasRow(PersonsByName(hotel_id, username))
         THEN First(PersonsByName(hotel_id, username)).id
         ELSE NextId(persons)
    ELSE person_id

\* customer.py 249-259: the hotel's table with this number becomes occupied
\* by the new order.
OccupyTable(hotel_id, table_number, order_id) ==
    LET db_table == {t \in tables : t.hotel_id = hotel_id /\ t.table_number = table_number}
    IN IF HasRow(db_table)
       THEN Update(tables, [First(db_table) EXCEPT !.is_occupied = TRUE,
                                                  !.current_order_id = order_id])
       ELSE tables

\* The number of visits recorded so far, over all persons.
RECURSIVE TotalVisits(_)
TotalVisits(S) ==
    IF S = {} THEN 0
    ELSE LET p == CHOOSE x \in S : TRUE
         IN p.visit_count + TotalVisits(S \ {p})

create_order(s, table_number, person_id, username, password, req) ==
    IF ~HasHotel(s) THEN Reject(400)
    ELSE LET hotel_id == get_current_hotel_id(s)
             order_id == NextId(orders)
         IN /\ Cardinality(orders) < MaxOrders
            /\ TotalVisits(persons) < MaxOrders
            /\ Cardinality(NewItems(req, hotel_id, order_id, items)) <= MaxItems
            /\ Cardinality(OrderPersons(hotel_id, person_id, username, password))
                   <= MaxPersons
            /\ persons' = OrderPersons(hotel_id, person_id, username, password)
            /\ orders' = orders \cup
                   {Order(order_id, hotel_id, table_number,
                          OrderPersonId(hotel_id, person_id, username))}
            /\ tables' = OccupyTable(hotel_id, table_number, order_id)
            /\ items' = NewItems(req, hotel_id, order_id, items)
            /\ resp' = Response(200, {})
            /\ UNCHANGED <<sessions, dishes, loyalty_tiers, selection_offers,
                           otp_requests, now, inflight>>

\* ------------------------------------------------------------- chef.py
SetStatus(o, status) == [o EXCEPT !.status = status]

OrdersOf(hotel_id, order_id) ==
    {o \in orders : o.hotel_id = hotel_id /\ o.id = order_id}

OrderOnly == <<sessions, persons, dishes, items, tables, loyalty_tiers,
               selection_offers, otp_requests, now, inflight>>

\* chef.py 64: only a pending order can be accepted.
CanAccept(o) == o.status = "pending"

CanComplete_pending(o) == o.status \in {"pending", "accepted"}

\* chef.py 85: only an accepted order can be completed.
CanComplete(o) == o.status = "accepted"

\* chef.py 54-72
accept_order(s, order_id) ==
    IF ~HasHotel(s) THEN Reject(400)
    ELSE LET db_order == OrdersOf(get_current_hotel_id(s), order_id)
         IN IF ~HasRow(db_order) THEN Reject(404)
            ELSE IF ~CanAccept(First(db_order))
            THEN Reject(400)
            ELSE /\ orders' = Update(orders, SetStatus(First(db_order), "accepted"))
                 /\ resp' = Response(200, {})
                 /\ UNCHANGED OrderOnly

\* chef.py 75-93
complete_order(s, order_id) ==
    IF ~HasHotel(s) THEN Reject(400)
    ELSE LET db_order == OrdersOf(get_current_hotel_id(s), order_id)
         IN IF ~HasRow(db_order) THEN Reject(404)
            ELSE IF ~CanComplete(First(db_order))
            THEN Reject(400)
            ELSE /\ orders' = Update(orders, SetStatus(First(db_order), "completed"))
                 /\ resp' = Response(200, {})
                 /\ UNCHANGED OrderOnly

\* --------------------------------------------- customer.py request_payment
\* customer.py 371-375: sum of the dish's price times the quantity over the
\* order's items whose dish row exists (the item.dish relationship).
RECURSIVE SumItems(_)
SumItems(S) ==
    IF S = {} THEN 0
    ELSE LET item == CHOOSE x \in S : TRUE
             dish == {d \in dishes : d.id = item.dish_id}
         IN (IF HasRow(dish) THEN First(dish).price * item.quantity ELSE 0)
            + SumItems(S \ {item})

Subtotal(order_id) == SumItems({i \in items : i.order_id = order_id})

LoyaltyTier_reached(hotel_id, person_id) ==
    LET person == {p \in persons : p.id = person_id}
    IN IF person_id = NoId \/ ~HasRow(person) THEN {}
       ELSE {t \in loyalty_tiers : /\ t.hotel_id = hotel_id
                                   /\ t.visit_count <= First(person).visit_count
                                   /\ t.is_active}

\* customer.py 383-398: the active tier of the hotel whose visit_count equals
\* the person's visit count; the person is looked up by id alone.
LoyaltyTier(hotel_id, person_id) ==
    LET person == {p \in persons : p.id = person_id}
    IN IF person_id = NoId \/ ~HasRow(person) THEN {}
       ELSE {t \in loyalty_tiers : /\ t.hotel_id = hotel_id
                                   /\ t.visit_count = First(person).visit_count
                                   /\ t.is_active}

LoyaltyPercentage(hotel_id, person_id) ==
    IF HasRow(LoyaltyTier(hotel_id, person_id))
    THEN First(LoyaltyTier(hotel_id, person_id)).discount_percentage
    ELSE 0

\* customer.py 399: subtotal * (percentage / 100); exact here because every
\* price is a whole number of currency units kept in hundredths.
LoyaltyAmount(subtotal, percentage) == (subtotal * percentage) \div 100

QualifyingOffers_inactive(hotel_id, subtotal) ==
    {f \in selection_offers : f.hotel_id = hotel_id /\ f.min_amount <= subtotal}

\* customer.py 402-414: the active offer of the hotel with the greatest
\* min_amount not above the subtotal.
QualifyingOffers(hotel_id, subtotal) ==
    {f \in selection_offers : /\ f.hotel_id = hotel_id
                              /\ f.min_amount <= subtotal
                              /\ f.is_active}

BestOffer(hotel_id, subtotal) ==
    LET q == QualifyingOffers(hotel_id, subtotal)
    IN First({f \in q : \A g \in q : g.min_amount <= f.min_amount})

OfferDiscount(hotel_id, subtotal) ==
    IF HasRow(QualifyingOffers(hotel_id, subtotal))
    THEN BestOffer(hotel_id, subtotal).discount_amount
    ELSE 0

FinalTotal_unfloored(subtotal, loyalty, offer) == subtotal - loyalty - offer

\* customer.py 417-420
FinalTotal(subtotal, loyalty, offer) == Max(0, subtotal - loyalty - offer)

\* customer.py 423-428
Paid(o, hotel_id) ==
    LET subtotal == Subtotal(o.id)
        percentage == LoyaltyPercentage(hotel_id, o.person_id)
        loyalty == LoyaltyAmount(subtotal, percentage)
        offer == OfferDiscount(hotel_id, subtotal)
    IN [o EXCEPT !.status = "paid",
                 !.subtotal_amount = subtotal,
                 !.loyalty_discount_amount = loyalty,
                 !.loyalty_discount_percentage = percentage,
                 !.selection_offer_discount_amount = offer,
                 !.total_amount = FinalTotal(subtotal, loyalty, offer)]

\* customer.py 435-439: the query runs before the status change is flushed
\* (autoflush is off), over the orders of every hotel with this table number.
TableUnpaidOrders(table_number) ==
    {o \in orders : /\ o.table_number = table_number
                    /\ o.status # "paid"
                    /\ o.status # "cancelled"}

FreeTable(t) == [t EXCEPT !.is_occupied = FALSE, !.current_order_id = NoId]

\* customer.py 442-447: the first table with this number, of any hotel.
TablesAfterPayment(o) ==
    LET db_table == {t \in tables : t.table_number = o.table_number}
    IN IF TableUnpaidOrders(o.table_number) = {o} /\ HasRow(db_table)
       THEN Update(tables, FreeTable(First(db_table)))
       ELSE tables

\* customer.py 362: only a completed order can be paid.
CanPay(o) == o.status = "completed"

request_payment_again(s, order_id) ==
    IF ~HasHotel(s) THEN Reject(400)
    ELSE LET hotel_id == get_current_hotel_id(s)
             db_order == OrdersOf(hotel_id, order_id)
         IN IF ~HasRow(db_order) THEN Reject(404)
            ELSE IF First(db_order).status \notin {"completed", "paid"}
            THEN Reject(400)
            ELSE /\ orders' = Update(orders, Paid(First(db_order), hotel_id))
                 /\ tables' = TablesAfterPayment(First(db_order))
                 /\ resp' = Response(200, {})
                 /\ UNCHANGED <<sessions, persons, dishes, items, loyalty_tiers,
                                selection_offers, otp_requests, now, inflight>>

\* customer.py 344-466
request_payment(s, order_id) ==
    IF ~HasHotel(s) THEN Reject(400)
    ELSE LET hotel_id == get_current_hotel_id(s)
             db_order == OrdersOf(hotel_id, order_id)
         IN IF ~HasRow(db_order) THEN Reject(404)
            ELSE IF First(db_order).status = "paid"
            THEN /\ resp' = Failure(200, "Order is already paid")
                 /\ UNCHANGED <<sessions, DbVars, now, inflight>>
            ELSE IF ~CanPay(First(db_order))
            THEN Reject(400)
            ELSE /\ orders' = Update(orders, Paid(First(db_order), hotel_id))
                 /\ tables' = TablesAfterPayment(First(db_order))
                 /\ resp' = Response(200, {})
                 /\ UNCHANGED <<sessions, persons, dishes, items, loyalty_tiers,
                                selection_offers, otp_requests, now, inflight>>

\* ------------------------------------------------ customer.py cancel_order
\* customer.py 496-500: the first table with this number, of any hotel, is
\* freed when its current order is the cancelled one.
TablesAfterCancel(o) ==
    LET db_table == {t \in tables : t.table_number = o.table_number}
    IN IF HasRow(db_table) /\ First(db_table).current_order_id = o.id
       THEN Update(tables, FreeTable(First(db_table)))
       ELSE tables

CanCancel_accepted(o) == o.status \in {"pending", "accepted"}

\* customer.py 482: only a pending order can be cancelled.
CanCancel(o) == o.status = "pending"

\* customer.py 470-504
cancel_order(s, order_id) ==
    IF ~HasHotel(s) THEN Reject(400)
    ELSE LET db_order == OrdersOf(get_current_hotel_id(s), order_id)
         IN IF ~HasRow(db_order) THEN Reject(404)
            ELSE IF ~CanCancel(First(db_order))
            THEN Reject(400)
            ELSE /\ orders' = Update(orders, SetStatus(First(db_order), "cancelled"))
                 /\ tables' = TablesAfterCancel(First(db_order))
                 /\ resp' = Response(200, {})
                 /\ UNCHANGED <<sessions, persons, dishes, items, loyalty_tiers,
                                selection_offers, otp_requests, now, inflight>>

\* ------------------------------------------------------------- admin.py
\* admin.py 581-595: any order, of any hotel, from any status; the session
\* needs no hotel.
mark_order_paid(s, order_id) ==
    LET db_order == {o \in orders : o.id = order_id}
    IN IF ~HasRow(db_order) THEN Reject(404)
       ELSE /\ orders' = Update(orders, SetStatus(First(db_order), "paid"))
            /\ resp' = Response(200, {})
            /\ UNCHANGED OrderOnly

\* admin.py 753-762 with database.py 340: Order.items has no delete cascade,
\* so deleting the source order makes the unit of work set order_id to NULL
\* on every item in source_order.items, overriding the assignment of the
\* target id made in the loop.
MergedItems(source_id) ==
    {IF i.order_id = source_id THEN [i EXCEPT !.order_id = NoId] ELSE i : i \in items}

\* admin.py 718-772: orders are looked up by id alone.
merge_orders(s, source_order_id, target_order_id) ==
    LET source_order == {o \in orders : o.id = source_order_id}
        target_order == {o \in orders : o.id = target_order_id}
        valid_statuses == {"completed", "paid"}
    IN IF ~HasRow(source_order) \/ ~HasRow(target_order)
       THEN Reject(404)
       ELSE IF \/ First(source_order).status \notin valid_statuses
               \/ First(target_order).status \notin valid_statuses
       THEN Reject(400)
       ELSE /\ items' = MergedItems(source_order_id)
            /\ orders' = orders \ source_order
            /\ resp' = Response(IF source_order_id = target_order_id THEN 500 ELSE 200, {})
            /\ UNCHANGED <<sessions, persons, dishes, tables, loyalty_tiers,
                           selection_offers, otp_requests, now, inflight>>

\* ------------------------------------- customer.py register_user, login_user
Seen_counted(p) == Visited(p)

\* customer.py 136, 178, 579: an existing person who authenticates gets a new
\* last_visit and nothing else.
Seen(p) == [p EXCEPT !.last_visit = now]

\* customer.py 124-152
register_user(s, username, password) ==
    IF ~HasHotel(s) THEN Reject(400)
    ELSE LET hotel_id == get_current_hotel_id(s)
             db_user == PersonsByName(hotel_id, username)
         IN /\ persons' =
                 IF HasRow(db_user)
                 THEN Update(persons, Seen(First(db_user)))
                 ELSE persons \cup {Person(NextId(persons), hotel_id, username,
                                           password, NoPhone, 0, now)}
            /\ HasRow(db_user) \/ Cardinality(persons) < MaxPersons
            /\ resp' = Response(200, {hotel_id})
            /\ UNCHANGED <<sessions, dishes, orders, items, tables, loyalty_tiers,
                           selection_offers, otp_requests, now, inflight>>

\* customer.py 156-189
login_user(s, username, password) ==
    IF ~HasHotel(s) THEN Reject(400)
    ELSE LET db_user == PersonsByName(get_current_hotel_id(s), username)
         IN IF ~HasRow(db_user) \/ First(db_user).password # password
            THEN Reject(401)
            ELSE /\ persons' = Update(persons, Seen(First(db_user)))
                 /\ resp' = Response(200, {First(db_user).hotel_id})
                 /\ UNCHANGED <<sessions, dishes, orders, items, tables,
                                loyalty_tiers, selection_offers, otp_requests,
                                now, inflight>>

\* ------------------------------------------------- services/otp_service.py
\* database.py OtpRequest; the uuid4 primary key (the token handed to the
\* client) is modelled by a fresh integer.
OtpRequest(id, hotel_id, phone_number, otp_code, created_at) ==
    [id |-> id, hotel_id |-> hotel_id, phone_number |-> phone_number,
     otp_code |-> otp_code, created_at |-> created_at, verified |-> FALSE]

\* otp_service.py 68-89: otp_code is the random code _generate_otp drew.
send_otp(phone_number, hotel_id, otp_code) ==
    otp_requests \cup
        {OtpRequest(NextId(otp_requests), hotel_id, phone_number, otp_code, now)}

\* customer.py 517-548
phone_auth(s, phone_number, otp_code) ==
    IF ~HasHotel(s) THEN Reject(400)
    ELSE /\ Cardinality(otp_requests) < MaxOtps
         /\ otp_requests' = send_otp(phone_number, get_current_hotel_id(s), otp_code)
         /\ resp' = Response(200, {})
         /\ UNCHANGED <<sessions, persons, dishes, orders, items, tables,
                        loyalty_tiers, selection_offers, now, inflight>>

Expired_never(r) == FALSE

\* otp_service.py 109-111
Expired(r) == now > r.created_at + OTP_EXPIRY_MINUTES

\* otp_service.py 97-115: the detail of the 400 that verify_otp raises, or ""
\* when every check passes; the record is looked up by token alone.
OtpError(token, otp, phone_number) ==
    LET db_otp_request == {r \in otp_requests : r.id = token}
    IN IF ~HasRow(db_otp_request)
       THEN "Invalid OTP session or token."
       ELSE IF First(db_otp_request).phone_number # phone_number
       THEN "OTP was not sent to this phone number."
       ELSE IF First(db_otp_request).verified
       THEN "This OTP has already been used."
       ELSE IF Expired(First(db_otp_request))
       THEN "OTP has expired. Please request a new one."
       ELSE IF First(db_otp_request).otp_code # otp
       THEN "Invalid OTP code."
       ELSE ""

OtpReject_consuming(detail) ==
    /\ resp' = Failure(400, detail)
    /\ otp_requests' = {[r EXCEPT !.verified = TRUE] : r \in otp_requests}
    /\ UNCHANGED <<sessions, persons, dishes, orders, items, tables,
                   loyalty_tiers, selection_offers, now, inflight>>

OtpReject(detail) ==
    /\ resp' = Failure(400, detail)
    /\ UNCHANGED <<sessions, DbVars, now, inflight>>

\* otp_service.py 118-119
MarkVerified(token) ==
    {IF r.id = token THEN [r EXCEPT !.verified = TRUE] ELSE r : r \in otp_requests}

\* customer.py 568-577: the hotel's person with this phone number, if any,
\* gets a new last_visit.
PersonsByPhone(hotel_id, phone_number) ==
    {p \in persons : p.hotel_id = hotel_id /\ p.phone_number = phone_number}

PersonsAfterVerify(hotel_id, phone_number) ==
    IF HasRow(PersonsByPhone(hotel_id, phone_number))
    THEN Update(persons, Seen(First(PersonsByPhone(hotel_id, phone_number))))
    ELSE persons

VerifyResponse(hotel_id, phone_number) ==
    Response(200, {p.hotel_id : p \in PersonsByPhone(hotel_id, phone_number)})

\* customer.py 552-607, one request served without interleaving.
verify_otp(s, token, otp, phone_number) ==
    IF ~HasHotel(s) THEN Reject(400)
    ELSE IF OtpError(token, otp, phone_number) # ""
    THEN OtpReject(OtpError(token, otp, phone_number))
    ELSE /\ otp_requests' = MarkVerified(token)
         /\ persons' = PersonsAfterVerify(get_current_hotel_id(s), phone_number)
         /\ resp' = VerifyResponse(get_current_hotel_id(s), phone_number)
         /\ UNCHANGED <<sessions, dishes, orders, items, tables, loyalty_tiers,
                        selection_offers, now, inflight>>

\* customer.py 552-607 served by a worker thread of the pool: the read and
\* the checks of otp_service.py 97-115 ...
verify_otp_check(t, s, token, otp, phone_number) ==
    /\ inflight[t].pc = "idle"
    /\ IF ~HasHotel(s) THEN Reject(400)
       ELSE IF OtpError(token, otp, phone_number) # ""
       THEN OtpReject(OtpError(token, otp, phone_number))
       ELSE /\ inflight' = [inflight EXCEPT ![t] =
                               [pc |-> "commit", hotel_id |-> get_current_hotel_id(s),
                                token |-> token, phone_number |-> phone_number]]
            /\ UNCHANGED <<sessions, DbVars, now, resp>>

\* ... and, as a later step, the write of otp_service.py 118-119 followed by
\* the rest of the handler.
verify_otp_commit(t) ==
    /\ inflight[t].pc = "commit"
    /\ otp_requests' = MarkVerified(inflight[t].token)
    /\ persons' = PersonsAfterVerify(inflight[t].hotel_id, inflight[t].phone_number)
    /\ resp' = VerifyResponse(inflight[t].hotel_id, inflight[t].phone_number)
    /\ inflight' = [inflight EXCEPT ![t] = [pc |-> "idle"]]
    /\ UNCHANGED <<sessions, dishes, orders, items, tables, loyalty_tiers,
                   selection_offers, now>>

\* customer.py 610-674
register_phone_user(s, username, phone_number) ==
    IF ~HasHotel(s) THEN Reject(400)
    ELSE LET hotel_id == get_current_hotel_id(s)
         IN IF \/ HasRow(PersonsByName(hotel_id, username))
               \/ HasRow(PersonsByPhone(hotel_id, phone_number))
            THEN Reject(400)
            ELSE /\ Cardinality(persons) < MaxPersons
                 /\ persons' = persons \cup
                        {Person(NextId(persons), hotel_id, username, "",
                                phone_number, 0, now)}
                 /\ resp' = Response(200, {hotel_id})
                 /\ UNCHANGED <<sessions, dishes, orders, items, tables,
                                loyalty_tiers, selection_offers, otp_requests,
                                now, inflight>>

\* The wall clock read by datetime.now, in minutes, observed up to a limit.
Tick(limit) ==
    /\ now < limit
    /\ now' = now + 1
    /\ UNCHANGED <<sessions, DbVars, inflight, resp>>

\* ------------------------------------------------------------ read requests
\* session_middleware.py 60-101: a request under /customer/api/, /tables/ or
\* /analytics/ of a session without a hotel is answered 400 by the middleware.
Owners(rows) == {r.hotel_id : r \in rows}

Answer(code, owners) ==
    /\ resp' = Response(code, owners)
    /\ UNCHANGED <<sessions, DbVars, now, inflight>>

\* A response whose body is a list of dishes.
DishList(rows) ==
    /\ resp' = [Response(200, Owners(rows)) EXCEPT !.dishes = Ids(rows)]
    /\ UNCHANGED <<sessions, DbVars, now, inflight>>

\* A response whose body is the sorted list of the category names of rows.
CategoryList(rows) ==
    /\ resp' = [Response(200, Owners(rows)) EXCEPT
                   !.categories = UNION {d.category : d \in rows}]
    /\ UNCHANGED <<sessions, DbVars, now, inflight>>

\* customer.py 35-116, admin.py 83-180: the visible dishes of a hotel.
VisibleDishes(hotel_id) ==
    {d \in dishes : d.hotel_id = hotel_id /\ d.visibility = 1}

\* database_adapter.py 97-106: every dish of a hotel.
get_dishes_by_hotel(hotel_id) == {d \in dishes : d.hotel_id = hotel_id}

\* customer.py 35-64: category is None (no filter) or a category name.
get_menu(s, category) ==
    IF ~HasHotel(s) THEN Reject(400)
    ELSE IF category = NoName
    THEN DishList(VisibleDishes(get_current_hotel_id(s)))
    ELSE DishList({d \in VisibleDishes(get_current_hotel_id(s)) :
                      category \in d.category})

\* customer.py 68-76
get_offers(s) ==
    IF ~HasHotel(s) THEN Reject(400)
    ELSE DishList({d \in VisibleDishes(get_current_hotel_id(s)) : d.is_offer = 1})

\* customer.py 80-88
get_specials(s) ==
    IF ~HasHotel(s) THEN Reject(400)
    ELSE DishList({d \in VisibleDishes(get_current_hotel_id(s)) : d.is_special = 1})

\* customer.py 92-116
get_categories(s) ==
    IF ~HasHotel(s) THEN Reject(400)
    ELSE CategoryList(VisibleDishes(get_current_hotel_id(s)))

\* admin.py 83-114: is_offer and is_special are None (Null) or 0 or 1.
get_all_dishes(s, is_offer, is_special) ==
    IF ~HasHotel(s) THEN Reject(400)
    ELSE DishList({d \in get_dishes_by_hotel(get_current_hotel_id(s)) :
                      /\ d.visibility = 1
                      /\ is_offer = Null \/ d.is_offer = is_offer
                      /\ is_special = Null \/ d.is_special = is_special})

\* admin.py 118-136
get_offer_dishes(s) ==
    IF ~HasHotel(s) THEN Reject(400)
    ELSE DishList({d \in get_dishes_by_hotel(get_current_hotel_id(s)) :
                      d.visibility = 1 /\ d.is_offer = 1})

\* admin.py 140-158
get_special_dishes(s) ==
    IF ~HasHotel(s) THEN Reject(400)
    ELSE DishList({d \in get_dishes_by_hotel(get_current_hotel_id(s)) :
                      d.visibility = 1 /\ d.is_special = 1})

\* admin.py 162-180
get_dish(s, dish_id) ==
    IF ~HasHotel(s) THEN Reject(400)
    ELSE LET dish == {d \in get_dishes_by_hotel(get_current_hotel_id(s)) :
                         d.id = dish_id /\ d.visibility = 1}
         IN IF ~HasRow(dish) THEN Reject(404) ELSE DishList(dish)

\* admin.py 193-219: the categories of every dish of the hotel.
get_all_categories(s) ==
    IF ~HasHotel(s) THEN Reject(400)
    ELSE CategoryList(get_dishes_by_hotel(get_current_hotel_id(s)))

\* admin.py 457-484: soft delete of a visible dish of the hotel.
delete_dish_unchecked(s, dish_id) ==
    LET dish_to_delete == {d \in dishes : d.id = dish_id /\ d.visibility = 1}
    IN IF ~HasRow(dish_to_delete) THEN Reject(404)
       ELSE /\ dishes' = Update(dishes, [First(dish_to_delete) EXCEPT
                                            !.visibility = 0])
            /\ resp' = Response(200, {})
            /\ UNCHANGED <<sessions, persons, orders, items, tables,
                           loyalty_tiers, selection_offers, otp_requests,
                           now, inflight>>

delete_dish(s, dish_id) ==
    IF ~HasHotel(s) THEN Reject(400)
    ELSE LET dish_to_delete == {d \in get_dishes_by_hotel(get_current_hotel_id(s)) :
                                   d.id = dish_id /\ d.visibility = 1}
         IN IF ~HasRow(dish_to_delete) THEN Reject(404)
            ELSE /\ dishes' = Update(dishes, [First(dish_to_delete) EXCEPT
                                                 !.visibility = 0])
                 /\ resp' = Response(200, {})
                 /\ UNCHANGED <<sessions, persons, orders, items, tables,
                                loyalty_tiers, selection_offers, otp_requests,
                                now, inflight>>

\* customer.py 508-513: the person is looked up by id alone.
get_person(s, person_id) ==
    IF ~HasHotel(s) THEN Reject(400)
    ELSE LET person == {p \in persons : p.id = person_id}
         IN IF ~HasRow(person) THEN Reject(404)
            ELSE Answer(200, Owners(person))

\* table.py 24-26: every table of the database.
get_all_tables(s) ==
    IF ~HasHotel(s) THEN Reject(400)
    ELSE Answer(200, Owners(tables))

\* analytics.py 29-130 without a date range: the counts of all persons, all
\* orders and all dishes, and the sales of all paid orders.
get_dashboard_stats(s) ==
    IF ~HasHotel(s) THEN Reject(400)
    ELSE Answer(200, Owners(persons) \cup Owners(orders) \cup Owners(dishes))

\* ------------------------------------------------------ the order lifecycle
\* Two hotels with a dish and a table each (both tables carry number 1),
\* loyalty tiers and selection offers, and sessions 1 and 2 bound to hotels
\* 1 and 2 by switch-hotel; session 3 has no hotel.
BoundSessions == (1 :> 1) @@ (2 :> 2) @@ (3 :> NoHotel)

Menu ==
    {Dish(1, 1, {"main"}, 10000, 0, 0, 1), Dish(2, 2, {"main"}, 5000, 0, 0, 1)}

Floor == {Table(1, 1, 1, FALSE, NoId), Table(2, 2, 1, FALSE, NoId)}

Tiers ==
    {LoyaltyProgram(1, 1, 1, 10, TRUE), LoyaltyProgram(2, 1, 2, 100, TRUE),
     LoyaltyProgram(3, 2, 2, 50, TRUE)}

Offers ==
    {SelectionOffer(1, 1, 10000, 3000, TRUE), SelectionOffer(2, 1, 20000, 25000, TRUE),
     SelectionOffer(3, 2, 5000, 1000, TRUE)}

Idle == [t \in 1..NumThreads |-> [pc |-> "idle"]]

InitOrder ==
    /\ sessions = BoundSessions
    /\ persons = {}
    /\ dishes = Menu
    /\ orders = {}
    /\ items = {}
    /\ tables = Floor
    /\ loyalty_tiers = Tiers
    /\ selection_offers = Offers
    /\ otp_requests = {}
    /\ now = 0
    /\ inflight = Idle
    /\ resp = NoResponse

OrderIds == 1..MaxOrders

\* The requests a client holding session s can make.
OrderRequest(s) ==
    \/ \E n \in TableNumbers, req \in OrderItemLists :
          create_order(s, n, NoId, NoName, NoName, req)
    \/ \E o \in OrderIds : accept_order(s, o)
    \/ \E o \in OrderIds : complete_order(s, o)
    \/ \E o \in OrderIds : request_payment(s, o)
    \/ \E o \in OrderIds : cancel_order(s, o)
    \/ \E o \in OrderIds : mark_order_paid(s, o)
    \/ \E o \in OrderIds, t \in OrderIds : merge_orders(s, o, t)

NextOrder == \E s \in SessionIds : OrderRequest(s)

SpecOrder == InitOrder /\ [][NextOrder]_vars

\* ------------------------------------------------------------------ C3
AllowedEdges ==
    {<<"pending", "accepted">>, <<"accepted", "completed">>,
     <<"completed", "paid">>, <<"pending", "cancelled">>}

StatusChanges ==
    {<<o.id, o.status, q.status>> : <<o, q>> \in {c \in orders \X orders' : c[1].id = c[2].id}}

\* C3 as stated: every change of an order's status follows one of the edges
\* pending->accepted, accepted->completed, completed->paid, pending->cancelled.
C3_OnlyLifecycleEdges ==
    [][\A c \in StatusChanges : c[2] # c[3] => <<c[2], c[3]>> \in AllowedEdges]_vars

\* C3 amended: a status change follows one of the four edges, or it is the
\* admin mark_order_paid endpoint setting the order to paid from any status.
C3_LifecycleEdgesOrAdminPaid ==
    [][\A c \in StatusChanges :
          c[2] # c[3] =>
              \/ <<c[2], c[3]>> \in AllowedEdges
              \/ c[3] = "paid" /\ \E s \in SessionIds : mark_order_paid(s, c[1])]_vars

\* An order paid by the admin endpoint without passing through completed:
\* it carries no computed amounts.
C3_Witness ==
    \E o \in orders : o.status = "paid" /\ o.subtotal_amount = Null

\* ------------------------------------------------------------------ C2
\* The rows a hotel owns.
RowsOf(h) ==
    <<{o \in orders : o.hotel_id = h}, {i \in items : i.hotel_id = h},
      {t \in tables : t.hotel_id = h}, {l \in loyalty_tiers : l.hotel_id = h},
      {p \in persons : p.hotel_id = h}>>

\* C2: a request served for a session bound to hotel A leaves every row of
\* every other hotel as it was.
C2_TenantWriteIsolation ==
    [][\A s \in SessionIds :
          HasHotel(s) /\ OrderRequest(s) =>
              \A h \in HotelIds \ {get_current_hotel_id(s)} : RowsOf(h)' = RowsOf(h)]_vars

\* ------------------------------------------------------------------ C4
\* C4: when request_payment succeeds on a completed order, the stored total
\* is max(0, subtotal - loyalty discount - selection offer discount).
C4_PaymentTotal ==
    [][\A s \in SessionIds, id \in OrderIds :
          (/\ HasHotel(s)
           /\ \E o \in OrdersOf(get_current_hotel_id(s), id) : o.status = "completed"
           /\ request_payment(s, id))
          => \E q \in orders' :
                /\ q.id = id
                /\ q.status = "paid"
                /\ q.subtotal_amount >= 0
                /\ q.total_amount =
                      Max(0, q.subtotal_amount - q.loyalty_discount_amount
                                               - q.selection_offer_discount_amount)]_vars

\* A payment whose discounts exceed the subtotal: the total is floored.
C4_Witness ==
    \E o \in orders :
        /\ o.status = "paid"
        /\ o.subtotal_amount > 0
        /\ o.loyalty_discount_amount > 0
        /\ o.subtotal_amount < o.loyalty_discount_amount + o.selection_offer_discount_amount
        /\ o.total_amount = 0

\* ------------------------------------------------------------------ C7
ActiveStatuses == {"pending", "accepted", "completed"}

ActiveOrdersAt(t) ==
    {o \in orders : /\ o.hotel_id = t.hotel_id
                    /\ o.table_number = t.table_number
                    /\ o.status \in ActiveStatuses}

\* C7: a table is occupied exactly when its hotel has a pending, accepted or
\* completed order at its number, and current_order_id is null or names
\* such an order.
C7_TableConsistency ==
    \A t \in tables :
        /\ t.is_occupied <=> ActiveOrdersAt(t) # {}
        /\ t.current_order_id = NoId \/ t.current_order_id \in Ids(ActiveOrdersAt(t))

\* ------------------------------------------------ customers and their visits
\* The requests of the customer front end: registration and login by
\* username or by phone, placing orders, and the read endpoints.
PersonIds == 0..MaxPersons

OtpTokens == 1..MaxOtps

InitVisit == InitOrder

AuthRequest(s) ==
    \/ register_user(s, "alice", "pw")
    \/ \E password \in Passwords : login_user(s, "alice", password)
    \/ \E token \in OtpTokens, otp \in OtpCodes, phone_number \in Phones :
          verify_otp(s, token, otp, phone_number)
    \/ \E username \in Usernames : register_phone_user(s, username, "900")

ReadRequest(s) ==
    \/ get_menu(s, NoName)
    \/ \E p \in PersonIds : get_person(s, p)
    \/ get_all_tables(s)
    \/ get_dashboard_stats(s)

VisitRequest(s) ==
    \/ register_user(s, "alice", "pw")
    \/ ReadRequest(s)
    \/ \E n \in TableNumbers, p \in PersonIds, username \in {NoName, "alice"},
          req \in OrderItemLists :
          create_order(s, n, p, username, "pw", req)

NextVisit == \E s \in SessionIds : VisitRequest(s)

SpecVisit == InitVisit /\ [][NextVisit]_vars

\* ------------------------------------------------------------ authentication
\* Registration and login by username or by phone, between placed orders,
\* while the clock advances.
InitAuth == InitOrder

\* The clients at hotel 1's front desk: session 1, and session 3 before it
\* has selected a hotel.
FrontDesk == {1, 3}

NextAuth ==
    \/ \E s \in FrontDesk :
          \/ AuthRequest(s)
          \/ phone_auth(s, "900", "12345")
          \/ \E n \in TableNumbers, req \in OrderItemLists :
                create_order(s, n, NoId, "alice", "pw", req)
    \/ Tick(VisitWindow)

SpecAuth == InitAuth /\ [][NextAuth]_vars

\* ------------------------------------------------------------------ C1
\* C1: the response to a read request of a session bound to hotel A returns
\* or aggregates rows of hotel A only.
C1_TenantReadIsolation ==
    [][\A s \in SessionIds :
          HasHotel(s) /\ ReadRequest(s) =>
              resp'.owners \subseteq {get_current_hotel_id(s)}]_vars

\* ------------------------------------------------------------------ C5
\* C5: each person's visit_count is the number of orders stored with that
\* person's id.
C5_VisitCountIsOrderCount ==
    \A p \in persons :
        p.visit_count = Cardinality({o \in orders : o.person_id = p.id})

\* ------------------------------------------------------------------ C6
\* C6: register_user, login_user, verify_otp and register_phone_user leave
\* every existing person as it was except for last_visit, and a person they
\* create has visit_count 0.
C6_AuthKeepsVisitCount ==
    [][\/ /\ \A p \in persons :
                \E q \in persons' : q = [p EXCEPT !.last_visit = q.last_visit]
          /\ \A q \in persons' : q.id \notin Ids(persons) => q.visit_count = 0
       \/ \A s \in FrontDesk : ~AuthRequest(s)]_vars

\* A person with a placed order whose last_visit was refreshed by a later
\* authentication: the last response is the one of an authentication.
C6_Witness ==
    \E p \in persons :
        /\ p.visit_count > 0
        /\ p.last_visit = now
        /\ now > 0
        /\ resp = Response(200, {p.hotel_id})

\* ------------------------------------------------------ phone verification
\* OTP requests of hotel 1's clients and the worker threads that serve
\* POST /customer/api/verify-otp concurrently.
Threads == 1..NumThreads

InitOtp == InitOrder

NextOtp ==
    \/ \E s \in FrontDesk :
          \/ now <= SendWindow /\ phone_auth(s, "900", "12345")
          \/ \E t \in Threads, token \in OtpTokens, otp \in OtpCodes,
                phone_number \in Phones :
                verify_otp_check(t, s, token, otp, phone_number)
    \/ \E t \in Threads : verify_otp_commit(t)
    \/ Tick(MaxTime)

SpecOtp == InitOtp /\ [][NextOtp]_vars

\* ------------------------------------------------------------------ C9
\* C9: no verify_otp call returns success for a record that an earlier call
\* has already verified.
C9_AtMostOneSuccess ==
    [][\A t \in Threads :
          verify_otp_commit(t) =>
              \A r \in otp_requests : r.id = inflight[t].token => ~r.verified]_vars

\* ------------------------------------------------------------------ C10
\* C10: a verify_otp call served more than OTP_EXPIRY_MINUTES after the
\* record was created is answered 400, whatever the code and phone number,
\* and changes no OTP record.
C10_ExpiredOtpRejected ==
    [][\/ /\ resp'.code = 400
          /\ otp_requests' = otp_requests
          /\ inflight' = inflight
       \/ \A token \in OtpTokens :
             (\E r \in otp_requests :
                 r.id = token /\ now - r.created_at > OTP_EXPIRY_MINUTES)
             => \A t \in Threads, s \in FrontDesk, otp \in OtpCodes,
                   phone_number \in Phones :
                   ~verify_otp_check(t, s, token, otp, phone_number)]_vars

\* A call for the right phone number on an unverified record rejected by the
\* expiry check.
C10_Witness ==
    /\ resp = Failure(400, "OTP has expired. Please request a new one.")
    /\ \E r \in otp_requests :
          ~r.verified /\ now - r.created_at > OTP_EXPIRY_MINUTES

\* ------------------------------------------------------------ the dish lists
\* A kitchen of MaxDishes visible dishes: two out of three belong to hotel 1,
\* "dessert" and "drinks" are carried by few dishes, and offers and specials
\* alternate.
Categories == {"main", "dessert", "drinks"}

DishCategory(d) ==
    IF d % 3 = 1 THEN {"main"}
    ELSE IF d % 3 = 2 THEN {"main", "dessert"} ELSE {"drinks"}

Kitchen ==
    {Dish(d, IF d % 3 = 0 THEN 2 ELSE 1, DishCategory(d), 10000, d % 2,
          (d + 1) % 2, 1) : d \in 1..MaxDishes}

InitDish ==
    /\ sessions = BoundSessions
    /\ persons = {}
    /\ dishes = Kitchen
    /\ orders = {}
    /\ items = {}
    /\ tables = Floor
    /\ loyalty_tiers = Tiers
    /\ selection_offers = Offers
    /\ otp_requests = {}
    /\ now = 0
    /\ inflight = Idle
    /\ resp = NoResponse

KitchenIds == 1..MaxDishes

Flags == {Null, 0, 1}

DishRequest(s) ==
    \/ \E category \in Categories \cup {NoName} : get_menu(s, category)
    \/ get_offers(s)
    \/ get_specials(s)
    \/ get_categories(s)
    \/ \E is_offer \in Flags, is_special \in Flags :
          get_all_dishes(s, is_offer, is_special)
    \/ get_offer_dishes(s)
    \/ get_special_dishes(s)
    \/ \E d \in KitchenIds : get_dish(s, d)
    \/ get_all_categories(s)
    \/ \E d \in KitchenIds : delete_dish(s, d)

NextDish == \E s \in SessionIds : DishRequest(s)

SpecDish == InitDish /\ [][NextDish]_vars

\* ------------------------------------------------------------------ C8
\* C8: the last response lists no invisible dish, and the categories it
\* lists are carried by visible dishes.
C8_InvisibleNeverListed ==
    /\ \A d \in dishes : d.visibility = 0 => d.id \notin resp.dishes
    /\ resp.categories \subseteq UNION {d.category : d \in {x \in dishes : x.visibility = 1}}

\* ------------------------------------------------------- sessions and hotels
\* database.py Hotel: the hotels imported at start-up, with their passwords.
Hotel(id, hotel_name, password) ==
    [id |-> id, hotel_name |-> hotel_name, password |-> password]

Hotels == {Hotel(1, "h1", "p1"), Hotel(2, "h2", "p2")}

authenticate_hotel_by_name(hotel_name, password) ==
    LET hotel == {h \in Hotels : h.hotel_name = hotel_name}
    IN IF HasRow(hotel) THEN First(hotel).id ELSE NoHotel

\* database_adapter.py 82-94: the id of the hotel with this name and
\* password, or None.
authenticate_hotel(hotel_name, password) ==
    LET hotel == {h \in Hotels : h.hotel_name = hotel_name /\ h.password = password}
    IN IF HasRow(hotel) THEN First(hotel).id ELSE NoHotel

set_hotel_context_everywhere(s, hotel_id) == [t \in SessionIds |-> hotel_id]

\* database.py 117-129, 174-182: the session's entry is created with, or
\* updated to, the hotel.
set_hotel_context(s, hotel_id) == [sessions EXCEPT ![s] = hotel_id]

\* settings.py 82-107 (the path is exempt from the middleware's validation).
select_hotel(s, hotel_name, password) ==
    IF authenticate_hotel(hotel_name, password) = NoHotel
    THEN /\ resp' = Failure(401, "Invalid hotel credentials")
         /\ UNCHANGED <<sessions, DbVars, now, inflight>>
    ELSE /\ sessions' = set_hotel_context(s, authenticate_hotel(hotel_name, password))
         /\ resp' = Response(200, {})
         /\ UNCHANGED <<DbVars, now, inflight>>

\* database.py 214-219: the session's entry is dropped.
cleanup_session(s) ==
    /\ sessions' = [sessions EXCEPT ![s] = NoHotel]
    /\ UNCHANGED <<DbVars, now, inflight, resp>>

\* A request path: the router prefix the middleware tests with startswith,
\* and the rest of the path.
Path(prefix, name) == [prefix |-> prefix, name |-> name]

\* session_middleware.py 32-68
is_database_endpoint(path) ==
    path.prefix \in {"/settings/", "/customer/api/", "/chef/", "/admin/",
                     "/analytics/", "/tables/", "/feedback/", "/loyalty/",
                     "/selection-offers/"}

skip_validation_endpoints ==
    {Path("/settings/", n) : n \in {"databases", "hotels", "switch-database",
                                    "switch-hotel", "current-database",
                                    "current-hotel"}}

should_validate(path) ==
    /\ is_database_endpoint(path)
    /\ path \notin skip_validation_endpoints
    /\ path.prefix \notin {"/admin/", "/chef/"}

MiddlewareAnswer_lenient(s, path, hotel_name, password) ==
    IF ~should_validate(path) \/ HasHotel(s) THEN 0
    ELSE IF hotel_name = NoName \/ password = NoName THEN 400
    ELSE 0

\* session_middleware.py 70-112: the answer of the middleware, or 0 when it
\* calls the handler; credentials are the x-hotel-name and x-hotel-password
\* headers, None when absent.
MiddlewareAnswer(s, path, hotel_name, password) ==
    IF ~should_validate(path) \/ HasHotel(s) THEN 0
    ELSE IF hotel_name = NoName \/ password = NoName THEN 400
    ELSE IF authenticate_hotel(hotel_name, password) = NoHotel THEN 401
    ELSE 0

\* session_middleware.py 76-86: the sessions map when the handler is called.
MiddlewareSessions(s, path, hotel_name, password) ==
    IF should_validate(path) /\ ~HasHotel(s)
    THEN set_hotel_context(s, authenticate_hotel(hotel_name, password))
    ELSE sessions

\* The body the handler of a path returns for a session resolved to hotel_id
\* (None without a hotel): customer.py 35-64 get_menu, table.py 24-26
\* get_all_tables, admin.py 83-114 get_all_dishes, settings.py 60-71
\* get_current_hotel, system.py 177-184 monitoring_status.
call_next(path, hotel_id) ==
    IF path = Path("/settings/", "current-hotel")
    THEN Response(200, {hotel_id} \ {NoHotel})
    ELSE IF path = Path("/monitoring/", "status")
    THEN Response(200, {})
    ELSE IF path = Path("/tables/", "")
    THEN Response(200, Owners(tables))
    ELSE IF hotel_id = NoHotel
    THEN Failure(400, "No hotel context set")
    ELSE [Response(200, Owners(VisibleDishes(hotel_id))) EXCEPT
             !.dishes = Ids(VisibleDishes(hotel_id))]

\* session_middleware.py 16-120: one read request through the middleware.
dispatch(s, path, hotel_name, password) ==
    /\ UNCHANGED <<DbVars, now, inflight>>
    /\ IF MiddlewareAnswer(s, path, hotel_name, password) = 401
       THEN resp' = Failure(401, "Invalid hotel credentials") /\ UNCHANGED sessions
       ELSE IF MiddlewareAnswer(s, path, hotel_name, password) = 400
       THEN /\ resp' = Failure(400, "No hotel selected. Please select a hotel first.")
            /\ UNCHANGED sessions
       ELSE /\ sessions' = MiddlewareSessions(s, path, hotel_name, password)
            /\ resp' = call_next(path, MiddlewareSessions(s, path, hotel_name,
                                                          password)[s])

HotelNames == {"h1", "h2", NoName}

HotelPasswords == {"p1", "p2", NoName}

Paths ==
    {Path("/customer/api/", "menu"), Path("/tables/", ""),
     Path("/admin/", "api/dishes"), Path("/settings/", "current-hotel"),
     Path("/monitoring/", "status")}

\* No session has selected a hotel yet.
InitSession ==
    /\ sessions = [s \in SessionIds |-> NoHotel]
    /\ persons = {}
    /\ dishes = Menu
    /\ orders = {}
    /\ items = {}
    /\ tables = Floor
    /\ loyalty_tiers = Tiers
    /\ selection_offers = Offers
    /\ otp_requests = {}
    /\ now = 0
    /\ inflight = Idle
    /\ resp = NoResponse

NextSession ==
    \E s \in SessionIds :
        \/ \E hotel_name \in HotelNames, password \in HotelPasswords :
              select_hotel(s, hotel_name, password)
        \/ \E path \in Paths, hotel_name \in HotelNames, password \in HotelPasswords :
              dispatch(s, path, hotel_name, password)
        \/ cleanup_session(s)

SpecSession == InitSession /\ [][NextSession]_vars

\* ------------------------------------------------------------------ C11
\* C11: the binding of a session changes only by a successful switch-hotel
\* of that session, by the middleware binding it after authenticating the
\* hotel, or by its cleanup; and a request of a bound session resolves to the
\* bound hotel.
C11_SessionBinding ==
    [][/\ \A s \in SessionIds :
             sessions'[s] # sessions[s] =>
                 \/ sessions'[s] = NoHotel /\ cleanup_session(s)
                 \/ \E hotel_name \in HotelNames, password \in HotelPasswords :
                       /\ authenticate_hotel(hotel_name, password) = sessions'[s]
                       /\ \/ select_hotel(s, hotel_name, password)
                          \/ \E path \in Paths : dispatch(s, path, hotel_name, password)
       /\ \A s \in SessionIds, hotel_name \in HotelNames, password \in HotelPasswords :
             HasHotel(s) /\ dispatch(s, Path("/settings/", "current-hotel"),
                                     hotel_name, password)
             => resp'.owners = {sessions[s]} /\ sessions'[s] = sessions[s]]_vars

\* Session 1 has switched from one hotel to the other while session 2 stays
\* bound, and its requests resolve to the new hotel.
C11_Witness ==
    /\ sessions[1] = 2
    /\ sessions[2] = 1
    /\ sessions[3] = NoHotel
    /\ resp = Response(200, {2})

\* ------------------------------------------------------------------ C12
MiddlewareFailures ==
    {Failure(400, "No hotel selected. Please select a hotel first."),
     Failure(401, "Invalid hotel credentials")}

\* C12: on a tenant-validated path the handler runs only for a bound
\* session: a bound session keeps its hotel, an unbound session with valid
\* credential headers is first bound to the authenticated hotel, and an
\* unbound session with missing or invalid credentials is answered by the
\* middleware with its binding untouched.
C12_ForwardedMeansBound ==
    [][\A s \in SessionIds, path \in Paths,
          hotel_name \in HotelNames, password \in HotelPasswords :
          \/ ~should_validate(path)
          \/ IF HasHotel(s)
             THEN /\ sessions' = sessions
                  /\ resp' = call_next(path, sessions[s])
             ELSE IF authenticate_hotel(hotel_name, password) # NoHotel
             THEN /\ sessions'[s] = authenticate_hotel(hotel_name, password)
                  /\ resp' = call_next(path, sessions'[s])
                  /\ resp' \notin MiddlewareFailures
             ELSE /\ sessions' = sessions
                  /\ resp' \in MiddlewareFailures
          \/ ~dispatch(s, path, hotel_name, password)]_vars

\* The menu of hotel 2 has been served to session 3, which is bound to it.
C12_Witness ==
    /\ sessions[3] = 2
    /\ sessions[1] = NoHotel
    /\ resp.code = 200
    /\ resp.dishes = Ids(VisibleDishes(2))
    /\ resp.dishes # {}

\* ------------------------------------------------------------------ C15
WrongCredentials(hotel_name, password) ==
    ~\E h \in Hotels : h.hotel_name = hotel_name /\ h.password = password

\* C15: a switch-hotel with a wrong hotel name or password, and a request of
\* an unbound session on a validated path whose credential headers are both
\* present and wrong, are answered 401 and leave every session's binding as
\* it was, bound or not.
C15_BadCredentialsRejected ==
    [][\A s \in SessionIds, hotel_name \in HotelNames, password \in HotelPasswords :
          \/ ~WrongCredentials(hotel_name, password)
          \/ /\ sessions' = sessions
             /\ resp' = Failure(401, "Invalid hotel credentials")
          \/ /\ ~select_hotel(s, hotel_name, password)
             /\ \A path \in Paths :
                   \/ ~should_validate(path)
                   \/ HasHotel(s)
                   \/ hotel_name = NoName
                   \/ password = NoName
                   \/ ~dispatch(s, path, hotel_name, password)]_vars

\* Every session is bound and the last request was refused with 401: the
\* refused attempt came from a session that was, and still is, bound.
C15_Witness ==
    /\ sessions[1] = 1
    /\ sessions[2] = 2
    /\ sessions[3] = 1
    /\ resp = Failure(401, "Invalid hotel credentials")

\* ------------------------------------------------- requests without a hotel
\* table.py 101-115 behind the middleware (the /tables/ prefix is validated,
\* the request carries no credential headers): the table is looked up by id
\* alone.
delete_table(s, table_id) ==
    IF ~HasHotel(s) THEN Reject(400)
    ELSE LET db_table == {t \in tables : t.id = table_id}
         IN IF ~HasRow(db_table) THEN Reject(404)
            ELSE IF First(db_table).is_occupied THEN Reject(400)
            ELSE /\ tables' = tables \ db_table
                 /\ resp' = Response(200, {})
                 /\ UNCHANGED <<sessions, persons, dishes, orders, items,
                                loyalty_tiers, selection_offers, otp_requests,
                                now, inflight>>

\* system.py 20-25: the two kinds of "key" a request body can carry.
MaintenanceKeys == {"optimization_key", "other"}

\* system.py 27-35
validate_maintenance_token(token) == token = "optimization_key"

\* system.py 37-72, 120-153: POST /monitoring/optimize is outside the paths
\* the middleware validates; with the built-in key it runs DELETE FROM on
\* every table of every *.db file of the working directory, the SQLite
\* database of the application among them.
performance_optimization(s, key) ==
    IF ~validate_maintenance_token(key)
    THEN Reject(403)
    ELSE /\ persons' = {}
         /\ dishes' = {}
         /\ orders' = {}
         /\ items' = {}
         /\ tables' = {}
         /\ loyalty_tiers' = {}
         /\ selection_offers' = {}
         /\ otp_requests' = {}
         /\ resp' = Response(200, {})
         /\ UNCHANGED <<sessions, now, inflight>>

TableIds == {1, 2}

\* The paths whose handler resolves the hotel of the session.
TenantPaths ==
    Paths \ {Path("/settings/", "current-hotel"), Path("/monitoring/", "status")}

\* Requests that carry no credential headers, to endpoints that resolve the
\* hotel of their session.
TenantRequest(s) ==
    \/ \E path \in TenantPaths : dispatch(s, path, NoName, NoName)
    \/ \E n \in TableNumbers, req \in OrderItemLists :
          create_order(s, n, NoId, NoName, NoName, req)
    \/ \E d \in DishIds : delete_dish(s, d)
    \/ \E t \in TableIds : delete_table(s, t)

OpenRequest(s) ==
    \/ \E o \in OrderIds : mark_order_paid(s, o)
    \/ \E key \in MaintenanceKeys : performance_optimization(s, key)

NextTenant ==
    \E s \in FrontDesk :
        \/ \E password \in HotelPasswords : select_hotel(s, "h1", password)
        \/ cleanup_session(s)
        \/ TenantRequest(s)
        \/ OpenRequest(s)

SpecTenant == InitSession /\ [][NextTenant]_vars

C17_UnboundCannotWrite ==
    [][(\E s \in SessionIds : HasHotel(s)) \/ DbVars' = DbVars]_vars

\* ------------------------------------------------------------------ C13
Refused400 == resp'.code = 400 /\ DbVars' = DbVars /\ sessions' = sessions

StatusSeenBy(s, order_id) ==
    {o.status : o \in OrdersOf(get_current_hotel_id(s), order_id)}

\* C13: accept on a non-pending order, complete on a non-accepted order,
\* payment on an order neither completed nor paid, and cancel on a
\* non-pending order are answered 400 and change no order, no amount and no
\* table (no persisted row at all).
C13_InvalidTransitionRejected ==
    [][\A s \in SessionIds, o \in OrderIds :
          \/ ~HasHotel(s)
          \/ StatusSeenBy(s, o) = {}
          \/ Refused400
          \/ /\ StatusSeenBy(s, o) = {"pending"} \/ ~accept_order(s, o)
             /\ StatusSeenBy(s, o) = {"accepted"} \/ ~complete_order(s, o)
             /\ StatusSeenBy(s, o) \subseteq {"completed", "paid"}
                   \/ ~request_payment(s, o)
             /\ StatusSeenBy(s, o) = {"pending"} \/ ~cancel_order(s, o)]_vars

\* A request has been refused with 400 while the hotel's only order is
\* completed, a status in which accept, complete and cancel are invalid.
C13_Witness ==
    /\ resp.code = 400
    /\ \E o \in orders : o.status = "completed"
    /\ \E t \in tables : t.is_occupied
    /\ Cardinality(orders) = 1

\* ------------------------------------------------------------------ C14
\* The request names an unverified record whose stored code differs.
Mismatched(token, otp) ==
    \E r \in otp_requests : r.id = token /\ ~r.verified /\ r.otp_code # otp

\* A request with the stored code and phone number of the record would pass
\* every check of the service while the record has not expired.
RetryAccepted(token) ==
    \A r \in otp_requests :
        r.id = token /\ ~Expired(r)
        => OtpError(token, r.otp_code, r.phone_number) = ""

MismatchAnswered(code) ==
       \/ /\ resp'.code = code
          /\ otp_requests' = otp_requests
          /\ \A token \in OtpTokens, otp \in OtpCodes :
                Mismatched(token, otp) => RetryAccepted(token)'
       \/ \A token \in OtpTokens, otp \in OtpCodes :
             Mismatched(token, otp)
             => \A s \in FrontDesk, phone_number \in Phones :
                   ~verify_otp(s, token, otp, phone_number)

\* C14 as stated: a verify-otp request whose code differs from the stored
\* code is answered 401 and leaves the record unverified, so that the right
\* code is still accepted before expiry.
C14_MismatchIs401 == [][MismatchAnswered(401)]_vars

\* C14 amended: a verify-otp request whose code differs from the stored code
\* is answered 400 and leaves the record unverified, so that the right code
\* is still accepted before expiry.
C14_MismatchIs400 == [][MismatchAnswered(400)]_vars

\* A wrong code has just been refused for a record that is unverified and
\* has not expired, and the right code would now pass.
C14_Witness ==
    /\ resp = Failure(400, "Invalid OTP code.")
    /\ \E r \in otp_requests :
          /\ ~r.verified
          /\ ~Expired(r)
          /\ OtpError(r.id, r.otp_code, r.phone_number) = ""

\* ------------------------------------------------------------------ C20
\* C20: after a merge_orders call that reports success the same items exist,
\* every item references an existing order, and the items of the source
\* order belong to the target order.
C20_MergeKeepsItems ==
    [][\A s \in SessionIds, source \in OrderIds, target \in OrderIds :
          \/ resp'.code # 200
          \/ /\ {i.id : i \in items'} = {i.id : i \in items}
             /\ \A i \in items' : \E o \in orders' : o.id = i.order_id
             /\ \A i \in items, j \in items' :
                   i.id = j.id /\ i.order_id = source => j.order_id = target
          \/ ~merge_orders(s, source, target)]_vars

\* ------------------------------------------- concurrent cancel and accept
\* chef.py 54-72 served by a worker thread of the pool: the read of the order
\* and the status check of lines 56-65 ...
accept_order_check(t, s, order_id) ==
    /\ inflight[t].pc = "idle"
    /\ IF ~HasHotel(s) THEN Reject(400)
       ELSE LET db_order == OrdersOf(get_current_hotel_id(s), order_id)
            IN IF ~HasRow(db_order) THEN Reject(404)
               ELSE IF ~CanAccept(First(db_order)) THEN Reject(400)
               ELSE /\ inflight' = [inflight EXCEPT ![t] =
                                       [pc |-> "accept", order_id |-> order_id]]
                    /\ UNCHANGED <<sessions, DbVars, now, resp>>

\* ... and, as a later step, the UPDATE of lines 67-70, which sets the status
\* of the row with that id whatever its status has become.
accept_order_commit(t) ==
    /\ inflight[t].pc = "accept"
    /\ orders' = {IF o.id = inflight[t].order_id THEN SetStatus(o, "accepted") ELSE o :
                     o \in orders}
    /\ resp' = Response(200, {})
    /\ inflight' = [inflight EXCEPT ![t] = [pc |-> "idle"]]
    /\ UNCHANGED <<sessions, persons, dishes, items, tables, loyalty_tiers,
                   selection_offers, otp_requests, now>>

\* customer.py 470-504 served by a worker thread: the read of the order and
\* the status check of lines 474-486 ...
cancel_order_check(t, s, order_id) ==
    /\ inflight[t].pc = "idle"
    /\ IF ~HasHotel(s) THEN Reject(400)
       ELSE LET db_order == OrdersOf(get_current_hotel_id(s), order_id)
            IN IF ~HasRow(db_order) THEN Reject(404)
               ELSE IF ~CanCancel(First(db_order)) THEN Reject(400)
               ELSE /\ inflight' = [inflight EXCEPT ![t] =
                                       [pc |-> "cancel", order_id |-> order_id]]
                    /\ UNCHANGED <<sessions, DbVars, now, resp>>

\* ... and, as a later step, the table lookup and the UPDATEs of lines
\* 488-502.
cancel_order_commit(t) ==
    /\ inflight[t].pc = "cancel"
    /\ orders' = {IF o.id = inflight[t].order_id THEN SetStatus(o, "cancelled") ELSE o :
                     o \in orders}
    /\ tables' = TablesAfterCancel(RowById(orders, inflight[t].order_id))
    /\ resp' = Response(200, {})
    /\ inflight' = [inflight EXCEPT ![t] = [pc |-> "idle"]]
    /\ UNCHANGED <<sessions, persons, dishes, items, loyalty_tiers,
                   selection_offers, otp_requests, now>>

NextRace ==
    \/ \E s \in FrontDesk :
          \/ \E n \in TableNumbers, req \in OrderItemLists :
                create_order(s, n, NoId, NoName, NoName, req)
          \/ \E t \in Threads, o \in OrderIds : accept_order_check(t, s, o)
          \/ \E t \in Threads, o \in OrderIds : cancel_order_check(t, s, o)
    \/ \E t \in Threads : accept_order_commit(t)
    \/ \E t \in Threads : cancel_order_commit(t)

SpecRace == InitOrder /\ [][NextRace]_vars

\* ------------------------------------------------------------------ C18
\* C18: of a concurrent cancel_order and accept_order on one order at most
\* one succeeds: no order goes from accepted to cancelled or from cancelled
\* to accepted.
C18_CancelAcceptExclusive ==
    [][\A o \in orders, p \in orders' :
          o.id = p.id =>
              /\ ~(o.status = "accepted" /\ p.status = "cancelled")
              /\ ~(o.status = "cancelled" /\ p.status = "accepted")]_vars

\* ------------------------------------------- concurrent create_order calls
\* Requests being served by worker threads that have read their person.
Placing == {t \in 1..NumThreads : inflight[t].pc = "visit"}

\* customer.py 192-231 served by a worker thread of the pool, person_id
\* given and naming a person of the hotel: the read of the person of lines 226-231, which loads visit_count
\* into the thread's own database session ...
create_order_read(t, s, table_number, person_id, req) ==
    /\ inflight[t].pc = "idle"
    /\ IF ~HasHotel(s) THEN Reject(400)
       ELSE /\ person_id # NoId
            /\ HasRow(PersonsById(get_current_hotel_id(s), person_id))
            /\ Cardinality(orders) + Cardinality(Placing) < MaxOrders
            /\ inflight' = [inflight EXCEPT ![t] =
                  [pc |-> "visit", hotel_id |-> get_current_hotel_id(s),
                   table_number |-> table_number, person_id |-> person_id, req |-> req,
                   visit_count |-> First(PersonsById(get_current_hotel_id(s),
                                                     person_id)).visit_count]]
            /\ UNCHANGED <<sessions, DbVars, now, resp>>

\* ... and, as a later step, lines 232-290: visit_count += 1 on the value
\* that was read, the UPDATE of the person by id, and the order, its items
\* and the table.
create_order_write(t) ==
    /\ inflight[t].pc = "visit"
    /\ LET r == inflight[t]
           order_id == NextId(orders)
       IN /\ Cardinality(NewItems(r.req, r.hotel_id, order_id, items)) <= MaxItems
          /\ persons' = Update(persons,
                 [RowById(persons, r.person_id) EXCEPT
                     !.visit_count = r.visit_count + VisitIncrement,
                     !.last_visit = now])
          /\ orders' = orders \cup
                 {Order(order_id, r.hotel_id, r.table_number, r.person_id)}
          /\ tables' = OccupyTable(r.hotel_id, r.table_number, order_id)
          /\ items' = NewItems(r.req, r.hotel_id, order_id, items)
    /\ resp' = Response(200, {})
    /\ inflight' = [inflight EXCEPT ![t] = [pc |-> "idle"]]
    /\ UNCHANGED <<sessions, dishes, loyalty_tiers, selection_offers,
                   otp_requests, now>>

NextVisitRace ==
    \/ \E s \in FrontDesk :
          \/ \E username \in Usernames : register_user(s, username, "pw")
          \/ \E t \in Threads, n \in TableNumbers, p \in PersonIds,
                req \in OrderItemLists :
                create_order_read(t, s, n, p, req)
    \/ \E t \in Threads : create_order_write(t)

SpecVisitRace == InitOrder /\ [][NextVisitRace]_vars

\* ------------------------------------------------------------------ C19
\* C19: every create_order for an existing person, alone or concurrent with
\* another one, raises the stored visit_count of that person by exactly one,
\* so that two of them raise it by two.
C19_NoLostVisit ==
    [][\A t \in Threads :
          create_order_write(t)
          => RowById(persons', inflight[t].person_id).visit_count
                 = RowById(persons, inflight[t].person_id).visit_count + 1]_vars

\* ------------------------------------------------------ admin.py update_dish
\* The prices an administrator sets, in hundredths.
DishPrices == {2000}

\* admin.py 354-453 with database_adapter.py 163-176, price given: the dish
\* of the hotel with this id, visible or not, gets the new price.
update_dish(s, dish_id, price) ==
    IF ~HasHotel(s) THEN Reject(400)
    ELSE LET existing_dish == {d \in get_dishes_by_hotel(get_current_hotel_id(s)) :
                                  d.id = dish_id}
         IN IF ~HasRow(existing_dish) THEN Reject(404)
            ELSE /\ dishes' = Update(dishes, [First(existing_dish) EXCEPT
                                                 !.price = price])
                 /\ resp' = Response(200, {get_current_hotel_id(s)})
                 /\ UNCHANGED <<sessions, persons, orders, items, tables,
                                loyalty_tiers, selection_offers, otp_requests,
                                now, inflight>>

\* ------------------------------------------- loyalty.py, selection_offer.py
\* loyalty.py 149-172: the discount_percentage in the body of
\* GET /loyalty/discount/{visit_count} for a session of the hotel.
get_discount_for_visit_count(hotel_id, visit_count) ==
    LET applicable_tier == {t \in loyalty_tiers : /\ t.hotel_id = hotel_id
                                                  /\ t.visit_count = visit_count
                                                  /\ t.is_active}
    IN IF ~HasRow(applicable_tier) THEN 0
       ELSE First(applicable_tier).discount_percentage

\* selection_offer.py 171-198: the discount_amount in the body of
\* GET /selection-offers/discount/{order_amount} for a session of the hotel.
get_discount_for_order_amount(hotel_id, order_amount) ==
    LET q == {f \in selection_offers : /\ f.hotel_id = hotel_id
                                       /\ f.min_amount <= order_amount
                                       /\ f.is_active}
        applicable_offer == {f \in q : \A g \in q : g.min_amount <= f.min_amount}
    IN IF ~HasRow(applicable_offer) THEN 0
       ELSE First(applicable_offer).discount_amount

\* The sessions bound to a hotel.
Tenants == {1, 2}

BillRequest(s) ==
    \/ \E n \in TableNumbers, req \in OrderItemLists :
          create_order(s, n, NoId, "alice", "pw", req)
    \/ \E o \in OrderIds : accept_order(s, o)
    \/ \E o \in OrderIds : complete_order(s, o)
    \/ \E o \in OrderIds : request_payment(s, o)
    \/ \E d \in DishIds, price \in DishPrices : update_dish(s, d, price)

NextBill == \E s \in Tenants : BillRequest(s)

\* The tiers and offers of InitOrder and, for hotel 2, a tier and an offer
\* that have been switched off.
InitBill ==
    /\ sessions = BoundSessions
    /\ persons = {}
    /\ dishes = Menu
    /\ orders = {}
    /\ items = {}
    /\ tables = Floor
    /\ loyalty_tiers = Tiers \cup {LoyaltyProgram(4, 2, 1, 20, FALSE)}
    /\ selection_offers = Offers \cup {SelectionOffer(4, 2, 2000, 500, FALSE)}
    /\ otp_requests = {}
    /\ now = 0
    /\ inflight = Idle
    /\ resp = NoResponse

SpecBill == InitBill /\ [][NextBill]_vars

\* ------------------------------------------------------------------ C21
\* The sum of recorded price times quantity over the items of an order.
RECURSIVE RecordedSum(_)
RecordedSum(S) ==
    IF S = {} THEN 0
    ELSE LET item == CHOOSE x \in S : TRUE
         IN item.price * item.quantity + RecordedSum(S \ {item})

OpenOrdersAt(hotel_id, table_number) ==
    {q \in orders : /\ q.hotel_id = hotel_id
                    /\ q.table_number = table_number
                    /\ q.status \notin {"paid", "cancelled"}}

\* C22: a successful request_payment on order o frees the table of o's
\* hotel with o's table number exactly when o is the only order of that
\* hotel at that table number that is neither paid nor cancelled, and changes
\* no other table.
C22_PaymentFreesOwnTable ==
    [][\A s \in SessionIds, id \in OrderIds :
          \/ ~HasHotel(s)
          \/ ~\E o \in OrdersOf(get_current_hotel_id(s), id) : o.status = "completed"
          \/ LET o == First(OrdersOf(get_current_hotel_id(s), id))
             IN tables' =
                   {IF /\ t.hotel_id = o.hotel_id
                       /\ t.table_number = o.table_number
                       /\ OpenOrdersAt(o.hotel_id, o.table_number) = {o}
                    THEN [t EXCEPT !.is_occupied = FALSE, !.current_order_id = NoId]
                    ELSE t : t \in tables}
          \/ ~request_payment(s, id)]_vars

\* ------------------------------------------------------------------ C23
\* C23: create_order without person_id, username and password stores the
\* order with no person, creates no person row and changes no visit count.
C23_GuestOrderHasNoPerson ==
    [][\A s \in SessionIds, n \in TableNumbers, req \in OrderItemLists :
          \/ ~HasHotel(s)
          \/ /\ persons' = persons
             /\ \A o \in orders' \ orders : o.person_id = NoId
          \/ ~create_order(s, n, NoId, NoName, NoName, req)]_vars

\* ------------------------------------------------------------------ C24
\* The discount percentages of the active tiers of a hotel keyed on exactly
\* this visit count; {0} when there is none.
TierPercentages(hotel_id, visit_count) ==
    LET tiers == {t \in loyalty_tiers : /\ t.hotel_id = hotel_id
                                        /\ t.is_active
                                        /\ t.visit_count = visit_count}
    IN IF tiers = {} THEN {0} ELSE {t.discount_percentage : t \in tiers}

\* The percentage C24 expects on order o paid now.
ExpectedPercentages(o) ==
    IF o.person_id = NoId \/ ~\E p \in persons : p.id = o.person_id
    THEN {0}
    ELSE TierPercentages(o.hotel_id, RowById(persons, o.person_id).visit_count)

\* C24: the loyalty percentage stored by a successful request_payment is
\* that of the active tier of the order's hotel keyed on exactly the
\* person's visit count at payment time, 0 without such a tier or without a
\* person, and it is what GET /loyalty/discount/{visit_count} answers.
C24_LoyaltyPercentage ==
    [][\A s \in Tenants, id \in OrderIds :
          \/ ~\E o \in OrdersOf(get_current_hotel_id(s), id) : o.status = "completed"
          \/ LET o == First(OrdersOf(get_current_hotel_id(s), id))
             IN \E q \in orders' :
                   /\ q.id = id
                   /\ q.status = "paid"
                   /\ q.loyalty_discount_percentage \in ExpectedPercentages(o)
                   /\ \/ ~\E p \in persons : p.id = o.person_id
                      \/ q.loyalty_discount_percentage =
                            get_discount_for_visit_count(
                                o.hotel_id, RowById(persons, o.person_id).visit_count)
          \/ ~request_payment(s, id)]_vars

\* An order of hotel 1 paid at 100 percent, the tier of two visits, by a
\* person with two visits; the tier of one visit was not applied.
C24_Witness ==
    \E o \in orders, p \in persons :
        /\ o.status = "paid"
        /\ o.hotel_id = 1
        /\ p.id = o.person_id
        /\ p.visit_count = 2
        /\ o.loyalty_discount_percentage = 100

\* ------------------------------------------------------------------ C25
\* The discount amounts of the active offers of a hotel with the greatest
\* min_amount not above the amount; {0} when no active offer qualifies.
OfferAmounts(hotel_id, amount) ==
    LET q == {f \in selection_offers : /\ f.hotel_id = hotel_id
                                       /\ f.is_active
                                       /\ f.min_amount <= amount}
    IN IF q = {} THEN {0}
       ELSE {f.discount_amount : f \in {g \in q : g.min_amount = MaxOf({h.min_amount : h \in q})}}

\* C25: the flat discount stored by a successful request_payment is that of
\* the active offer of the order's hotel with the greatest min_amount not
\* above the stored subtotal, 0 when no active offer qualifies, and it is
\* what GET /selection-offers/discount/{order_amount} answers for the
\* subtotal.
C25_SelectionOfferDiscount ==
    [][\A s \in Tenants, id \in OrderIds :
          \/ ~\E o \in OrdersOf(get_current_hotel_id(s), id) : o.status = "completed"
          \/ \E q \in orders' :
                /\ q.id = id
                /\ q.status = "paid"
                /\ q.selection_offer_discount_amount
                      \in OfferAmounts(q.hotel_id, q.subtotal_amount)
                /\ q.selection_offer_discount_amount
                      = get_discount_for_order_amount(q.hotel_id, q.subtotal_amount)
          \/ ~request_payment(s, id)]_vars

\* Hotel 1 has applied the offer of its upper tier, not the lower one, and
\* hotel 2 has paid an order below its only active offer without a discount
\* although an inactive offer was within reach.
C25_Witness ==
    \E o \in orders, p \in orders :
        /\ o.status = "paid" /\ o.hotel_id = 1
        /\ o.subtotal_amount = 20000
        /\ o.selection_offer_discount_amount = 25000
        /\ p.status = "paid" /\ p.hotel_id = 2
        /\ p.subtotal_amount = 2000
        /\ p.selection_offer_discount_amount = 0

\* ------------------------------------------------------ selection_offer.py
\* The min_amount values an administrator submits, in hundredths.
MinAmounts == {10000, 30000}

\* selection_offer.py 65-81 served by a worker thread of the pool: the
\* lookup of an offer of the hotel with this min_amount ...
create_selection_offer_check(t, s, min_amount, discount_amount) ==
    /\ inflight[t].pc = "idle"
    /\ IF ~HasHotel(s) THEN Reject(400)
       ELSE LET existing_offer ==
                    {f \in selection_offers : /\ f.hotel_id = get_current_hotel_id(s)
                                              /\ f.min_amount = min_amount}
            IN IF HasRow(existing_offer) THEN Reject(400)
               ELSE /\ inflight' = [inflight EXCEPT ![t] =
                          [pc |-> "create_offer", hotel_id |-> get_current_hotel_id(s),
                           min_amount |-> min_amount,
                           discount_amount |-> discount_amount]]
                    /\ UNCHANGED <<sessions, DbVars, now, resp>>

\* ... and, as a later step, the INSERT of lines 83-97; the table has no
\* unique constraint on (hotel_id, min_amount).
create_selection_offer_commit(t) ==
    /\ inflight[t].pc = "create_offer"
    /\ Cardinality(selection_offers) < MaxOffers
    /\ selection_offers' = selection_offers \cup
          {SelectionOffer(NextId(selection_offers), inflight[t].hotel_id,
                          inflight[t].min_amount, inflight[t].discount_amount, TRUE)}
    /\ resp' = Response(200, {inflight[t].hotel_id})
    /\ inflight' = [inflight EXCEPT ![t] = [pc |-> "idle"]]
    /\ UNCHANGED <<sessions, persons, dishes, orders, items, tables,
                   loyalty_tiers, otp_requests, now>>

\* selection_offer.py 101-131 served by a worker thread, min_amount given:
\* the lookup of the offer and of another offer of the hotel with the new
\* min_amount ...
update_selection_offer_check(t, s, offer_id, min_amount) ==
    /\ inflight[t].pc = "idle"
    /\ IF ~HasHotel(s) THEN Reject(400)
       ELSE LET db_offer == {f \in selection_offers :
                                f.hotel_id = get_current_hotel_id(s) /\ f.id = offer_id}
                existing_offer ==
                    {f \in selection_offers : /\ f.hotel_id = get_current_hotel_id(s)
                                              /\ f.min_amount = min_amount
                                              /\ f.id # offer_id}
            IN IF ~HasRow(db_offer) THEN Reject(404)
               ELSE IF min_amount # First(db_offer).min_amount /\ HasRow(existing_offer)
               THEN Reject(400)
               ELSE /\ inflight' = [inflight EXCEPT ![t] =
                          [pc |-> "update_offer", hotel_id |-> get_current_hotel_id(s),
                           offer_id |-> offer_id, min_amount |-> min_amount]]
                    /\ UNCHANGED <<sessions, DbVars, now, resp>>

\* ... and, as a later step, the UPDATE of lines 132-148.
update_selection_offer_commit(t) ==
    /\ inflight[t].pc = "update_offer"
    /\ selection_offers' =
          {IF f.id = inflight[t].offer_id
           THEN [f EXCEPT !.min_amount = inflight[t].min_amount] ELSE f :
              f \in selection_offers}
    /\ resp' = Response(200, {inflight[t].hotel_id})
    /\ inflight' = [inflight EXCEPT ![t] = [pc |-> "idle"]]
    /\ UNCHANGED <<sessions, persons, dishes, orders, items, tables,
                   loyalty_tiers, otp_requests, now>>

OfferIds == 1..MaxOffers

NextOffer ==
    \/ \E s \in Tenants, t \in Threads, min_amount \in MinAmounts :
          \/ create_selection_offer_check(t, s, min_amount, 1000)
          \/ \E offer_id \in OfferIds :
                update_selection_offer_check(t, s, offer_id, min_amount)
    \/ \E t \in Threads : create_selection_offer_commit(t)
    \/ \E t \in Threads : update_selection_offer_commit(t)

SpecOffer == InitOrder /\ [][NextOffer]_vars

\* ------------------------------------------------------------------ C26
\* C26: no hotel ever has two selection offers with the same min_amount.
C26_UniqueMinAmount ==
    \A f \in selection_offers, g \in selection_offers :
        f.hotel_id = g.hotel_id /\ f.min_amount = g.min_amount => f.id = g.id

\* --------------------------------------------- database.py DatabaseManager
\* DatabaseManager.sessions seen as a dictionary: in the specification below
\* sessions[s] is Null while s has no entry, None (NoHotel) for an entry
\* without a hotel, and the hotel id otherwise.
ManagedSession == 1

HotelArguments == {NoHotel, 1, 2}

LockFree_always == TRUE

\* database.py 121, 216: self.lock is held by the thread that is inside one
\* of the two "with self.lock" blocks.
LockFree == \A t \in 1..NumThreads : inflight[t].pc \notin {"locked", "create", "update"}

\* database.py 581: a handler's get_session_db calls
\* get_database_connection(session_id, None) ...
get_session_db_call(t, s) ==
    /\ inflight[t].pc = "idle"
    /\ inflight' = [inflight EXCEPT ![t] =
          [pc |-> "enter", op |-> "get", session_id |-> s, hotel_id |-> NoHotel]]
    /\ UNCHANGED <<sessions, DbVars, now, resp>>

\* ... and database.py 174-177: set_hotel_context calls
\* get_database_connection(session_id, hotel_id) with an authenticated hotel.
set_hotel_context_call(t, s, hotel_id) ==
    /\ inflight[t].pc = "idle"
    /\ hotel_id # NoHotel
    /\ inflight' = [inflight EXCEPT ![t] =
          [pc |-> "enter", op |-> "set", session_id |-> s, hotel_id |-> hotel_id]]
    /\ UNCHANGED <<sessions, DbVars, now, resp>>

\* database.py 214-215
cleanup_session_call(t, s) ==
    /\ inflight[t].pc = "idle"
    /\ inflight' = [inflight EXCEPT ![t] =
          [pc |-> "enter", op |-> "cleanup", session_id |-> s, hotel_id |-> NoHotel]]
    /\ UNCHANGED <<sessions, DbVars, now, resp>>

\* database.py 121, 216: with self.lock
lock_acquire(t) ==
    /\ inflight[t].pc = "enter"
    /\ LockFree
    /\ inflight' = [inflight EXCEPT ![t].pc = "locked"]
    /\ UNCHANGED <<sessions, DbVars, now, resp>>

\* database.py 122, 125: the membership test of get_database_connection.
get_database_connection_test(t) ==
    /\ inflight[t].pc = "locked"
    /\ inflight[t].op \in {"get", "set"}
    /\ inflight' = [inflight EXCEPT ![t].pc =
          IF sessions[inflight[t].session_id] = Null THEN "create" ELSE "update"]
    /\ UNCHANGED <<sessions, DbVars, now, resp>>

\* database.py 124, 127, 129 and 178: the entry is stored, or its hotel is
\* replaced by a different truthy hotel_id; the lock is released and
\* set_hotel_context returns True.
get_database_connection_write(t) ==
    /\ inflight[t].pc \in {"create", "update"}
    /\ sessions' =
          IF inflight[t].pc = "create"
          THEN [sessions EXCEPT ![inflight[t].session_id] = inflight[t].hotel_id]
          ELSE IF /\ inflight[t].hotel_id # NoHotel
                  /\ sessions[inflight[t].session_id] # Null
                  /\ sessions[inflight[t].session_id] # inflight[t].hotel_id
          THEN [sessions EXCEPT ![inflight[t].session_id] = inflight[t].hotel_id]
          ELSE sessions
    /\ inflight' = [inflight EXCEPT ![t] = [pc |-> "idle"]]
    /\ UNCHANGED <<DbVars, now, resp>>

\* database.py 217-219: the entry, if any, is deleted and the lock released.
cleanup_session_remove(t) ==
    /\ inflight[t].pc = "locked"
    /\ inflight[t].op = "cleanup"
    /\ sessions' = [sessions EXCEPT ![inflight[t].session_id] = Null]
    /\ inflight' = [inflight EXCEPT ![t] = [pc |-> "idle"]]
    /\ UNCHANGED <<DbVars, now, resp>>

\* database.py 184-188 behind settings.py 60-71: the hotel of the entry of
\* the session, None without an entry; no lock is taken.
get_current_hotel(s) ==
    /\ resp' = Response(200, {sessions[s]} \ {Null, NoHotel})
    /\ UNCHANGED <<sessions, DbVars, now, inflight>>

\* database.py 98: no session has an entry.
InitManager ==
    /\ sessions = [s \in SessionIds |-> Null]
    /\ persons = {}
    /\ dishes = Menu
    /\ orders = {}
    /\ items = {}
    /\ tables = Floor
    /\ loyalty_tiers = Tiers
    /\ selection_offers = Offers
    /\ otp_requests = {}
    /\ now = 0
    /\ inflight = Idle
    /\ resp = NoResponse

NextManager ==
    \/ \E t \in Threads :
          \/ get_session_db_call(t, ManagedSession)
          \/ \E hotel_id \in HotelArguments :
                set_hotel_context_call(t, ManagedSession, hotel_id)
          \/ cleanup_session_call(t, ManagedSession)
          \/ lock_acquire(t)
          \/ get_database_connection_test(t)
          \/ get_database_connection_write(t)
          \/ cleanup_session_remove(t)
    \/ get_current_hotel(ManagedSession)

SpecManager == InitManager /\ [][NextManager]_vars

\* ------------------------------------------------------------------ C27
\* Thread t completes the step that stores or updates the entry.
Returns(t) == inflight[t].pc \in {"create", "update"} /\ inflight'[t].pc = "idle"

\* C27: under every interleaving of get_database_connection and
\* set_hotel_context calls for one session id, an entry is created only
\* while the id has none, a call without a hotel never changes the hotel of
\* an existing entry, the entry holds h when set_hotel_context(s, h) returns
\* (so that a following get_current_hotel_id(s) returns h), and an entry
\* disappears only in cleanup_session.
C27_OneEntryPerSession ==
    [][/\ \A t \in Threads :
             Returns(t) =>
                LET s == inflight[t].session_id
                IN /\ inflight[t].pc = "create" => sessions[s] = Null
                   /\ inflight[t].op = "set" => sessions'[s] = inflight[t].hotel_id
                   /\ inflight[t].op = "get" /\ sessions[s] # Null
                         => sessions'[s] = sessions[s]
       /\ \A s \in SessionIds :
             sessions[s] # Null /\ sessions'[s] = Null
             => \E t \in Threads : cleanup_session_remove(t)]_vars

\* The session has an entry bound to hotel 2, which get_current_hotel has
\* just answered, while another thread waits for the lock.
C27_Witness ==
    /\ sessions[ManagedSession] = 2
    /\ resp = Response(200, {2})
    /\ \E t \in Threads : inflight[t].pc = "enter" /\ inflight[t].op = "get"

\* ------------------------- config/database_connection_manager.py 197-214
MaxRetries == 2

\* database_config.py 87, 107: timeout_settings["max_retries"], 3 unless the
\* environment says otherwise.
RetrySettings == 0..MaxRetries

\* What one call of the operation does: it returns, raises one of
\* OperationalError, DisconnectionError, sqlite3.OperationalError, or raises
\* anything else.
Outcomes == {"ok", "connection_error", "other_error"}

CanRetry_once_more(attempt, max_retries) == attempt <= max_retries

\* database_connection_manager.py 206: the test that decides between the
\* sleep before the next attempt and DatabaseConnectionError.
CanRetry(attempt, max_retries) == attempt < max_retries

\* database_connection_manager.py 197-202: execute_with_retry is entered;
\* the frame keeps what each call of the operation did so far.
execute_with_retry(t, max_retries) ==
    /\ inflight[t].pc \in {"idle", "returned", "raised"}
    /\ inflight' = [inflight EXCEPT ![t] =
          [pc |-> "running", max_retries |-> max_retries, outcomes |-> <<>>,
           raised |-> "none"]]
    /\ UNCHANGED <<sessions, DbVars, now, resp>>

\* database_connection_manager.py 202-214: one pass of the loop, attempt
\* being the number of calls already made.
operation_attempt(t, outcome) ==
    /\ inflight[t].pc = "running"
    /\ LET attempt == Len(inflight[t].outcomes)
           frame == [inflight[t] EXCEPT !.outcomes = Append(@, outcome)]
       IN inflight' = [inflight EXCEPT ![t] =
             CASE outcome = "ok" -> [frame EXCEPT !.pc = "returned"]
               [] outcome = "other_error" ->
                     [frame EXCEPT !.pc = "raised", !.raised = "other"]
               [] outcome = "connection_error"
                  /\ CanRetry(attempt, inflight[t].max_retries) -> frame
               [] OTHER ->
                     [frame EXCEPT !.pc = "raised",
                                   !.raised = "DatabaseConnectionError"]]
    /\ UNCHANGED <<sessions, DbVars, now, resp>>

InitRetry == InitOrder

NextRetry ==
    \E t \in Threads :
       \/ \E max_retries \in RetrySettings : execute_with_retry(t, max_retries)
       \/ \E outcome \in Outcomes : operation_attempt(t, outcome)

SpecRetry == InitRetry /\ [][NextRetry]_vars

\* The operation returns or raises each time it is called, and time.sleep
\* returns: a running loop takes its next pass.
SpecRetryFair ==
    SpecRetry /\ \A t \in Threads : WF_vars(\E outcome \in Outcomes : operation_attempt(t, outcome))

\* ------------------------------------------------------------------ C28
Running(t) == inflight[t].pc = "running"

\* Every call but the last one ended in a connection error.
OnlyLastMayDiffer(outcomes) ==
    \A i \in 1..(Len(outcomes) - 1) : outcomes[i] = "connection_error"

RetryDiscipline(t) ==
    LET f == inflight[t]
        n == Len(f.outcomes)
    IN /\ n <= f.max_retries + 1
       /\ OnlyLastMayDiffer(f.outcomes)
       /\ f.pc = "running" =>
             /\ n <= f.max_retries
             /\ \A i \in 1..n : f.outcomes[i] = "connection_error"
       /\ f.pc = "returned" => n >= 1 /\ f.outcomes[n] = "ok"
       /\ f.pc = "raised" /\ f.raised = "DatabaseConnectionError" =>
             /\ n = f.max_retries + 1
             /\ f.outcomes[n] = "connection_error"
       /\ f.pc = "raised" /\ f.raised = "other" =>
             n >= 1 /\ f.outcomes[n] = "other_error"
       /\ f.pc = "raised" => f.raised \in {"DatabaseConnectionError", "other"}

\* C28: execute_with_retry calls the operation at most max_retries + 1
\* times; it returns at the first call that succeeds, raises
\* DatabaseConnectionError after max_retries + 1 connection errors in a
\* row, lets any other exception through at the call that raised it, and
\* always comes to an end.
C28_RetryTerminates ==
    /\ [](\A t \in Threads : inflight[t].pc \in {"running", "returned", "raised"}
                                => RetryDiscipline(t))
    /\ \A t \in Threads : Running(t) ~> ~Running(t)

\* One call gave up after MaxRetries + 1 connection errors while another
\* returned at its second attempt.
C28_Witness ==
    \E t, u \in Threads :
       /\ inflight[t].pc = "raised"
       /\ inflight[t].raised = "DatabaseConnectionError"
       /\ inflight[t].max_retries = MaxRetries
       /\ Len(inflight[t].outcomes) = MaxRetries + 1
       /\ inflight[u].pc = "returned"
       /\ inflight[u].outcomes = <<"connection_error", "ok">>

\* ------------------------------------------------ soft delete and restore
\* database_adapter.py 163-191 as test_supabase_application.py 131-138 calls
\* it: update_dish(dish_id, hotel_id, {'visibility': v}) sets the one key on
\* the dish of that hotel and returns the row, or None without such a dish.
db_adapter_update_dish(dish_id, hotel_id, visibility) ==
    LET dish == {d \in dishes : d.id = dish_id /\ d.hotel_id = hotel_id}
    IN IF ~HasRow(dish)
       THEN /\ resp' = NoResponse
            /\ UNCHANGED <<sessions, DbVars, now, inflight>>
       ELSE /\ dishes' = Update(dishes, [First(dish) EXCEPT
                                            !.visibility = visibility])
            /\ resp' = [Response(0, Owners(dish)) EXCEPT !.dishes = Ids(dish)]
            /\ UNCHANGED <<sessions, persons, orders, items, tables,
                           loyalty_tiers, selection_offers, otp_requests,
                           now, inflight>>

SoftDeleteRequest(s) ==
    \/ \E d \in KitchenIds : delete_dish(s, d)
    \/ \E d \in KitchenIds : get_dish(s, d)
    \/ get_all_dishes(s, Null, Null)

NextSoftDelete ==
    \/ \E s \in SessionIds : SoftDeleteRequest(s)
    \/ \E d \in KitchenIds, h \in HotelIds, v \in {0, 1} :
          db_adapter_update_dish(d, h, v)

SpecSoftDelete == InitDish /\ [][NextSoftDelete]_vars

\* ------------------------------------------------------------------ C29
\* The row of the dish with this id, as the table holds it.
DishRow(d) == CHOOSE r \in dishes : r.id = d

\* The table differs from what it was in the visibility of dish d alone,
\* which is now v.
OnlyVisibilityChanged(d, v) ==
    dishes' = (dishes \ {DishRow(d)}) \cup {[DishRow(d) EXCEPT !.visibility = v]}

SoftDeleteStep ==
    /\ \A s \in SessionIds, d \in KitchenIds :
          delete_dish(s, d) /\ (\E r \in dishes : r.id = d) =>
             /\ DishRow(d).visibility = 1 /\ DishRow(d).hotel_id = sessions[s] =>
                   resp'.code = 200 /\ OnlyVisibilityChanged(d, 0)
             /\ DishRow(d).visibility = 0 /\ sessions[s] # NoHotel =>
                   resp'.code = 404 /\ UNCHANGED <<sessions, DbVars, now, inflight>>
    /\ \A d \in KitchenIds, h \in HotelIds :
          db_adapter_update_dish(d, h, 1)
          /\ (\E r \in dishes : r.id = d /\ r.hotel_id = h /\ r.visibility = 0) =>
             OnlyVisibilityChanged(d, 1)
    /\ \A s \in SessionIds :
          get_all_dishes(s, Null, Null) /\ sessions[s] # NoHotel =>
             resp'.dishes = {r.id : r \in {q \in dishes : q.hotel_id = sessions[s]
                                                         /\ q.visibility = 1}}

PaidOrderOf(s, order_id) ==
    \E o \in orders : /\ o.id = order_id
                      /\ o.hotel_id = sessions[s]
                      /\ sessions[s] # NoHotel
                      /\ o.status = "paid"

\* C30: request_payment on an order that is already paid answers 200 with
\* a message and changes no order, no table and no other row, so that the
\* state after paying twice is the state after paying once.
C30_PaymentIdempotent ==
    [][\A s \in Tenants, order_id \in 1..MaxOrders :
          ~PaidOrderOf(s, order_id)
          \/ ~request_payment(s, order_id)
          \/ /\ resp'.code = 200
             /\ resp'.detail = "Order is already paid"
             /\ UNCHANGED <<sessions, DbVars, now, inflight>>]_vars

\* A paid order has just been paid a second time, after the price of a dish
\* on it changed: its stored subtotal is no longer what its items cost.
C30_Witness ==
    /\ resp = Failure(200, "Order is already paid")
    /\ \E o \in orders :
          /\ o.status = "paid"
          /\ o.subtotal_amount #
                SumItems({i \in items : i.order_id = o.id})

====
